---- MODULE Spec2Model ----
(***************************************************************************)
(* Model of stereo/src/digital_elevation_map.cpp: the FeatureHistogram     *)
(* class and DigitalElevationMapBuilder::compute.                          *)
(*                                                                         *)
(* Every float of the source is an IEEE 754 single-precision value and     *)
(* every float operation rounds as the hardware does.  The index           *)
(* computation of the accumulation pass is modelled a second time over the *)
(* exact rationals (IndexSpec), for the statements made about it in exact  *)
(* arithmetic.                                                             *)
(***************************************************************************)
EXTENDS Integers, Sequences, FiniteSets, TLC

\* ------------------------------------------------------------------------
\* IEEE 754 single precision, standing for `float`: a value is
\* s * m * 2^e with s in {1, -1} and either m = 0 (zero: s = 1, e = 0) or
\* 2^23 <= m < 2^24.  Every operation returns the exact result rounded to the
\* nearest value, ties to even.  Subnormals, infinities and NaN do not occur
\* for the magnitudes of the model.  No intermediate value exceeds 2^31 - 1.

RECURSIVE Pow2Of(_)
Pow2Of(k) ==
  IF k = 0 THEN 1 ELSE 2 * Pow2Of(k - 1)

\* The powers of two of 32-bit arithmetic, computed once.
Pow2Table == [k \in 0 .. 30 |-> Pow2Of(k)]

\* 2^k for k in 0 .. 30
Pow2(k) ==
  Pow2Table[k]

\* The number of bits of x, 0 <= x < 2^31
BitLen(x) ==
  IF x >= Pow2(30)
    THEN 31
    ELSE CHOOSE b \in 0 .. 30 : x < Pow2(b) /\ (b = 0 \/ x >= Pow2(b - 1))

F32Zero == [s |-> 1, m |-> 0, e |-> 0]

\* The float nearest to s * (x + f) * 2^e, where x is a natural number and f
\* is 0 if ~sticky and some fraction strictly between 0 and 1 if sticky
\* (x then has at least 25 bits).
F32Round(s, x, e, sticky) ==
  LET b == BitLen(x)
  IN  IF x = 0
        THEN F32Zero
        ELSE IF b <= 24
          THEN [s |-> s, m |-> x * Pow2(24 - b), e |-> e - (24 - b)]
          ELSE LET shift == b - 24
                   q     == x \div Pow2(shift)
                   r     == x % Pow2(shift)
                   half  == Pow2(shift - 1)
                   up    == r > half \/ (r = half /\ (sticky \/ q % 2 = 1))
                   q1    == IF up THEN q + 1 ELSE q
               IN  IF q1 = Pow2(24)
                     THEN [s |-> s, m |-> Pow2(23), e |-> e + shift + 1]
                     ELSE [s |-> s, m |-> q1, e |-> e + shift]

\* static_cast<float> (n) of an integer n.
ToFloat(n) ==
  F32Round(IF n < 0 THEN -1 ELSE 1, IF n < 0 THEN -n ELSE n, 0, FALSE)

F32Neg(a) ==
  IF a.m = 0 THEN a ELSE [a EXCEPT !.s = -a.s]

F32Sign(a) ==
  IF a.m = 0 THEN 0 ELSE a.s

\* |a| < |b|
F32MagLess(a, b) ==
  IF b.m = 0 THEN FALSE
  ELSE IF a.m = 0 THEN TRUE
  ELSE a.e < b.e \/ (a.e = b.e /\ a.m < b.m)

\* a < b
F32Less(a, b) ==
  IF F32Sign(a) # F32Sign(b) THEN F32Sign(a) < F32Sign(b)
  ELSE IF F32Sign(a) = 1 THEN F32MagLess(a, b)
  ELSE IF F32Sign(a) = -1 THEN F32MagLess(b, a)
  ELSE FALSE

\* a <= b
F32Leq(a, b) ==
  ~ F32Less(b, a)

\* s * (|a| + |b|) for a, b # 0
F32AddMag(s, a, b) ==
  LET hi == IF a.e >= b.e THEN a ELSE b
      lo == IF a.e >= b.e THEN b ELSE a
      d  == hi.e - lo.e
  IN  IF d <= 6
        THEN F32Round(s, hi.m * Pow2(d) + lo.m, lo.e, FALSE)
        ELSE IF d - 6 >= 25
          THEN F32Round(s, hi.m * 64, hi.e - 6, TRUE)
          ELSE F32Round(s, hi.m * 64 + lo.m \div Pow2(d - 6), hi.e - 6,
                        lo.m % Pow2(d - 6) # 0)

\* s * (|a| - |b|) for |a| > |b| > 0
F32SubMag(s, a, b) ==
  LET d == a.e - b.e
  IN  IF d <= 6
        THEN F32Round(s, a.m * Pow2(d) - b.m, b.e, FALSE)
        ELSE IF d - 6 >= 25
          THEN F32Round(s, a.m * 64 - 1, a.e - 6, TRUE)
          ELSE LET small  == b.m \div Pow2(d - 6)
                   sticky == b.m % Pow2(d - 6) # 0
               IN  F32Round(s, a.m * 64 - small - (IF sticky THEN 1 ELSE 0),
                            a.e - 6, sticky)

\* a + b
F32Add(a, b) ==
  IF a.m = 0 THEN b
  ELSE IF b.m = 0 THEN a
  ELSE IF a.s = b.s THEN F32AddMag(a.s, a, b)
  ELSE IF F32MagLess(b, a) THEN F32SubMag(a.s, a, b)
  ELSE IF F32MagLess(a, b) THEN F32SubMag(b.s, b, a)
  ELSE F32Zero

\* a - b
F32Sub(a, b) ==
  F32Add(a, F32Neg(b))

\* a * b: the 48-bit product of the significands from their 12-bit halves.
F32Mul(a, b) ==
  IF a.m = 0 \/ b.m = 0
    THEN F32Zero
    ELSE LET a1  == a.m \div 4096
             a0  == a.m % 4096
             b1  == b.m \div 4096
             b0  == b.m % 4096
             mid == a1 * b0 + a0 * b1
             low == (mid % 4096) * 4096 + a0 * b0
             hi  == a1 * b1 + mid \div 4096 + low \div Pow2(24)
             lo  == low % Pow2(24)
         IN  F32Round(a.s * b.s, hi * 64 + lo \div Pow2(18), a.e + b.e + 18,
                      lo % Pow2(18) # 0)

\* a / b for b # 0: 28 bits of the quotient of the significands, 7 at a time.
F32Div(a, b) ==
  IF a.m = 0
    THEN F32Zero
    ELSE LET q0 == a.m \div b.m
             r0 == a.m % b.m
             q1 == (r0 * 128) \div b.m
             r1 == (r0 * 128) % b.m
             q2 == (r1 * 128) \div b.m
             r2 == (r1 * 128) % b.m
             q3 == (r2 * 128) \div b.m
             r3 == (r2 * 128) % b.m
             q4 == (r3 * 128) \div b.m
             r4 == (r3 * 128) % b.m
         IN  F32Round(a.s * b.s,
                      (((q0 * 128 + q1) * 128 + q2) * 128 + q3) * 128 + q4,
                      a.e - b.e - 28, r4 # 0)

\* static_cast<size_t> (a) of a float a >= 0: truncation.
ToSizeT(a) ==
  IF a.m = 0 THEN 0
  ELSE IF a.e >= 0 THEN a.m * Pow2(a.e)
  ELSE IF -a.e >= 24 THEN 0
  ELSE a.m \div Pow2(-a.e)

\* The greatest float below a float a > 0.
F32Pred(a) ==
  IF a.m > Pow2(23)
    THEN [a EXCEPT !.m = a.m - 1]
    ELSE [s |-> a.s, m |-> Pow2(24) - 1, e |-> a.e - 1]

\* ------------------------------------------------------------------------
\* Exact rational arithmetic: a value is [num, den] in lowest terms, den > 0.

RECURSIVE GCD(_, _)
GCD(a, b) ==
  IF b = 0 THEN a ELSE GCD(b, a % b)

Abs(x) ==
  IF x < 0 THEN -x ELSE x

Rat(n, d) ==
  LET g == GCD(Abs(n), d)
  IN  [num |-> n \div g, den |-> d \div g]

\* a - b
RatSub(a, b) ==
  Rat(a.num * b.den - b.num * a.den, a.den * b.den)

\* a / b for b > 0
RatDiv(a, b) ==
  Rat(a.num * b.den, a.den * b.num)

\* a < b
RatLess(a, b) ==
  a.num * b.den < b.num * a.den

\* The integer part of a >= 0.
RatFloor(a) ==
  a.num \div a.den

\* ------------------------------------------------------------------------
\* Bounds of the model.

MaxBins == 3
MaxElements == 2
MaxValue == 1

\* ------------------------------------------------------------------------
\* FeatureHistogram.

\* FeatureHistogram::FeatureHistogram (size_t number_of_bins)
FeatureHistogram(number_of_bins) ==
  [ histogram_          |-> [i \in 0 .. number_of_bins - 1 |-> 0],
    threshold_min_      |-> ToFloat(0),
    threshold_max_      |-> ToFloat(number_of_bins),
    step_               |-> ToFloat(1),
    number_of_elements_ |-> 0,
    number_of_bins_     |-> number_of_bins ]

\* Mutant of setThresholds: the range check lets min = max through.
setThresholdsLeq(h, min, max) ==
  IF F32Leq(min, max)
    THEN [h EXCEPT !.threshold_min_ = min,
                   !.threshold_max_ = max,
                   !.step_ = F32Div(F32Sub(max, min), ToFloat(h.number_of_bins_))]
    ELSE h

\* FeatureHistogram::setThresholds (float min, float max)
setThresholds(h, min, max) ==
  IF F32Less(min, max)
    THEN [h EXCEPT !.threshold_min_ = min,
                   !.threshold_max_ = max,
                   !.step_ = F32Div(F32Sub(max, min), ToFloat(h.number_of_bins_))]
    ELSE h

getThresholdMin(h) ==
  h.threshold_min_

getThresholdMax(h) ==
  h.threshold_max_

getNumberOfElements(h) ==
  h.number_of_elements_

getNumberOfBins(h) ==
  h.number_of_bins_

\* The range check of addValue: threshold_min_ < value && value < threshold_max_
addValueAccepts(h, value) ==
  F32Less(h.threshold_min_, value) /\ F32Less(value, h.threshold_max_)

\* bin_number of addValue
BinNumber(h, value) ==
  ToSizeT(F32Div(F32Sub(value, h.threshold_min_), h.step_))

\* addValue (value) increments histogram_[bin_number] with bin_number not
\* below the size of histogram_: a write past the end of the vector's buffer.
addValueOverruns(h, value) ==
  addValueAccepts(h, value) /\ BinNumber(h, value) >= h.number_of_bins_

\* FeatureHistogram::addValue (float value), as far as it changes the
\* histogram itself: an increment past the end of histogram_ changes none of
\* its bins (where it lands is a matter of the memory around the buffer).
addValue(h, value) ==
  IF addValueAccepts(h, value)
    THEN IF BinNumber(h, value) < h.number_of_bins_
           THEN [h EXCEPT !.number_of_elements_ = @ + 1,
                          !.histogram_[BinNumber(h, value)] = @ + 1]
           ELSE [h EXCEPT !.number_of_elements_ = @ + 1]
    ELSE h

\* std::max_element (begin, end) - begin: the index of the first of the largest
\* elements of histogram[0 .. last - 1] (begin itself for an empty range).
MaxElement(histogram, last) ==
  IF last = 0
    THEN 0
    ELSE CHOOSE i \in 0 .. last - 1 :
           /\ \A j \in 0 .. i - 1 : histogram[j] < histogram[i]
           /\ \A j \in i + 1 .. last - 1 : histogram[j] <= histogram[i]

\* FeatureHistogram::meanValue ()
meanValue(h) ==
  LET max_index == MaxElement(h.histogram_, h.number_of_bins_)
  IN  F32Add(F32Mul(h.step_, ToFloat(max_index)), h.threshold_min_)

\* The loop of FeatureHistogram::variance: bins is the set of the bins still to
\* visit that pass `histogram_[bin] > 0`; they are visited in increasing order
\* and variances_sum is the sum accumulated so far.
RECURSIVE VariancesSum(_, _, _, _)
VariancesSum(h, mean, bins, variances_sum) ==
  IF bins = {}
    THEN variances_sum
    ELSE LET bin   == CHOOSE b \in bins : \A c \in bins : b <= c
             value == F32Add(F32Mul(h.step_, ToFloat(bin)), h.threshold_min_)
             dif   == F32Sub(F32Mul(ToFloat(h.histogram_[bin]), value), mean)
         IN  VariancesSum(h, mean, bins \ {bin}, F32Add(variances_sum, F32Mul(dif, dif)))

\* FeatureHistogram::variance (float mean)
variance(h, mean) ==
  IF h.number_of_elements_ = 0
    THEN ToFloat(-1)
    ELSE F32Div(VariancesSum(h, mean,
                             { bin \in 0 .. h.number_of_bins_ - 1 : h.histogram_[bin] > 0 },
                             ToFloat(0)),
                ToFloat(h.number_of_elements_))

\* ------------------------------------------------------------------------
\* DigitalElevationMapBuilder: constants of compute.

\* -0.5f
kHeightMin == F32Div(ToFloat(-1), ToFloat(2))

\* 1.5f
kHeightMax == F32Div(ToFloat(3), ToFloat(2))

\* 0.01f: the float nearest to 1/100
kHeightResolution == F32Div(ToFloat(1), ToFloat(100))

kHeightBins == ToSizeT(F32Div(F32Sub(kHeightMax, kHeightMin), kHeightResolution))

kIntensityMin == ToFloat(0)

kIntensityMax == ToFloat(255)

kIntensityBins == 256

\* Histogram for initializing other height histograms.
height_histogram_example ==
  setThresholds(FeatureHistogram(kHeightBins), kHeightMin, kHeightMax)

\* Histogram for initializing other intensity histograms.
intensity_histogram_example ==
  setThresholds(FeatureHistogram(kIntensityBins), kIntensityMin, kIntensityMax)

\* The builder's defaults (constructor).
DefaultResolutionColumn == 64

DefaultResolutionDisparity == 32

DefaultMinPointsInCell == 1

\* ------------------------------------------------------------------------
\* Bounds and inputs of the builder.

MaxResolution == 2
MaxMinPoints == 1
MaxWidth == 2
MaxHeight == 2
MaxPixels == 2
MaxDisparity == 3

\* Disparity windows (disparity_threshold_min_, disparity_threshold_max_) of
\* the base class, min < max.
DisparityThresholds == { <<ToFloat(0), ToFloat(MaxDisparity)>> }

\* Values a cell of the disparity map may hold.
Disparities == { ToFloat(d) : d \in 0 .. MaxDisparity }

\* Heights translateCoordinates may return: the two ends of the height range
\* (both outside it), one height inside it and the greatest float below its
\* upper end.
Heights == { kHeightMin, kHeightResolution, F32Pred(kHeightMax), kHeightMax }

\* Pixels of the image: black, a dark grey, white.
Pixels == { [r |-> 0, g |-> 0, b |-> 0], [r |-> 1, g |-> 2, b |-> 2],
            [r |-> 255, g |-> 255, b |-> 255] }

\* Where the allocator puts the buffers of the histograms of one vector:
\* "padded" leaves unused bytes after each buffer, "adjacent" puts the buffers
\* back to back in the order of their allocation.
Layouts == { "padded", "adjacent" }

\* ------------------------------------------------------------------------
\* State.

VARIABLES
  \* DigitalElevationMapBuilder and its base class
  resolution_column_, resolution_disparity_, min_points_in_cell_,
  disparity_map_width_, disparity_map_height_,
  disparity_threshold_min_, disparity_threshold_max_,
  image_,                \* TRUE iff an image is attached (image_ is not null)
  \* the call of compute
  pc,                    \* "idle", "accumulate", "reduce", "done"
  out_cloud,             \* the caller's PointCloudPointer
  error,                 \* TRUE iff PCL_ERROR was called
  kColumnStep, kDisparityStep,
  height_histograms, intensity_histograms,
  column, row,           \* counters of the accumulation loops
  pixel,                 \* locals of the last iteration of the accumulation loops
  index_column, index_disparity,   \* counters of the reduction loops
  mean_calls,            \* calls of meanValue made by the last reduction iteration
  all_background,        \* no disparity read so far exceeds disparity_threshold_min_
  \* a FeatureHistogram on its own
  hist, op, constructed_bins,
  \* the heap
  layout,                \* how the buffers of the histograms lie in memory
  past_end               \* increments made past the end of a buffer that hit no histogram

builder_vars ==
  << resolution_column_, resolution_disparity_, min_points_in_cell_,
     disparity_map_width_, disparity_map_height_,
     disparity_threshold_min_, disparity_threshold_max_, image_ >>

compute_vars ==
  << pc, out_cloud, error, kColumnStep, kDisparityStep,
     height_histograms, intensity_histograms, column, row, pixel,
     index_column, index_disparity, mean_calls, all_background >>

hist_vars == << hist, op, constructed_bins >>

heap_vars == << layout, past_end >>

vars == << builder_vars, compute_vars, hist_vars, heap_vars >>

\* ------------------------------------------------------------------------
\* Values of the state outside a call.

\* A PointDEM as the resize of the cloud leaves it (not written by compute).
DefaultPoint ==
  [ filled |-> FALSE, xz |-> [row |-> 0, column |-> 0, disparity |-> ToFloat(0)],
    y |-> ToFloat(0), intensity |-> ToFloat(0),
    height_variance |-> ToFloat(0), intensity_variance |-> ToFloat(0) ]

\* The caller's pointer before the call: null.
NullCloud ==
  [ allocated |-> FALSE, width |-> 0, height |-> 0, points |-> [i \in {} |-> DefaultPoint] ]

\* out_cloud = PointCloudPointer (new PointCloud); width, height; resize.
NewCloud(width, height) ==
  [ allocated |-> TRUE, width |-> width, height |-> height,
    points |-> [i \in 0 .. width * height - 1 |-> DefaultPoint] ]

NoPixel ==
  [ read |-> FALSE, column |-> 0, row |-> 0, disparity |-> ToFloat(0), accepted |-> FALSE,
    index_column |-> 0, index_disparity |-> 0, index |-> 0 ]

NoHistograms == [i \in {} |-> FeatureHistogram(0)]

\* op: the last call made on hist, with the arguments of setThresholds and the
\* value meanValue or variance returned.
NoOp == [ name |-> "none", min |-> ToFloat(0), max |-> ToFloat(0), ret |-> ToFloat(0) ]

\* ------------------------------------------------------------------------
\* The steps of compute, as operators.

\* Mutant of ColumnStep: the step is rounded down (and kept positive).
ColumnStepRoundedDown(width, resolution_column) ==
  IF width \div resolution_column = 0 THEN 1 ELSE width \div resolution_column

\* kColumnStep
ColumnStep(width, resolution_column) ==
  (width - 1) \div resolution_column + 1

\* kDisparityStep
DisparityStep(threshold_min, threshold_max, resolution_disparity) ==
  F32Div(F32Sub(threshold_max, threshold_min), ToFloat(resolution_disparity))

\* disparity_threshold_min_ < disparity && disparity < disparity_threshold_max_
InWindow(disparity, threshold_min, threshold_max) ==
  F32Less(threshold_min, disparity) /\ F32Less(disparity, threshold_max)

\* static_cast<float> ((point_RGB.r + point_RGB.g + point_RGB.b) / 3)
Intensity(point_RGB) ==
  ToFloat((point_RGB.r + point_RGB.g + point_RGB.b) \div 3)

\* index_column of the accumulation pass
IndexColumn(col, column_step) ==
  col \div column_step

\* index_disparity of the accumulation pass
IndexDisparity(disparity, threshold_min, disparity_step) ==
  ToSizeT(F32Div(F32Sub(disparity, threshold_min), disparity_step))

\* index = index_column + index_disparity * resolution_column_
FlatIndex(ic, id, resolution_column) ==
  ic + id * resolution_column

\* The locals of one iteration of the accumulation loops, for the pixel
\* (col, rw) holding disparity: whether the pixel passes the window and, if so,
\* the indices of its histograms.
PixelLocals(col, rw, disparity, column_step, disparity_step) ==
  IF InWindow(disparity, disparity_threshold_min_, disparity_threshold_max_)
    THEN LET ic == IndexColumn(col, column_step)
             id == IndexDisparity(disparity, disparity_threshold_min_, disparity_step)
         IN  [ read |-> TRUE, column |-> col, row |-> rw, disparity |-> disparity,
               accepted |-> TRUE, index_column |-> ic, index_disparity |-> id,
               index |-> FlatIndex(ic, id, resolution_column_) ]
    ELSE [ read |-> TRUE, column |-> col, row |-> rw, disparity |-> disparity,
           accepted |-> FALSE, index_column |-> 0, index_disparity |-> 0, index |-> 0 ]

\* histograms[index].addValue (value) in the memory of the call.  An increment
\* past the end of histogram_ goes to the word that follows the buffer: bin 0
\* of the histogram allocated next where the buffers lie back to back, no bin
\* of any histogram otherwise.
AddValueAt(histograms, index, value) ==
  LET added == [histograms EXCEPT ![index] = addValue(@, value)]
  IN  IF /\ addValueOverruns(histograms[index], value)
         /\ layout = "adjacent"
         /\ index + 1 \in DOMAIN histograms
        THEN [added EXCEPT ![index + 1].histogram_[0] = @ + 1]
        ELSE added

\* The increments of histograms[index].addValue (value) that go past the end
\* of the buffer and hit no histogram.
PastEndWrites(histograms, index, value) ==
  IF addValueOverruns(histograms[index], value)
       /\ ~ (layout = "adjacent" /\ index + 1 \in DOMAIN histograms)
    THEN 1
    ELSE 0

\* The body of the reduction loops for one cell: the PointDEM stored.
ReducePoint(ic, id) ==
  LET index     == ic + id * resolution_column_
      col       == ic * kColumnStep
      disparity == F32Add(disparity_threshold_min_, F32Mul(ToFloat(id), kDisparityStep))
      point_3D  == [row |-> 0, column |-> col, disparity |-> disparity]
      hh        == height_histograms[index]
      ih        == intensity_histograms[index]
  IN  IF getNumberOfElements(hh) >= min_points_in_cell_
        THEN LET y         == meanValue(hh)
                 intensity == meanValue(ih)
             IN  [ filled |-> TRUE, xz |-> point_3D,
                   y |-> y, height_variance |-> variance(hh, y),
                   intensity |-> intensity, intensity_variance |-> variance(ih, intensity) ]
        ELSE [ filled |-> TRUE, xz |-> point_3D,
               y |-> ToFloat(0), intensity |-> ToFloat(255),
               height_variance |-> ToFloat(-1), intensity_variance |-> ToFloat(-1) ]

\* The calls of meanValue the body of the reduction loops makes for one cell.
ReduceMeanCalls(ic, id) ==
  LET index == ic + id * resolution_column_
  IN  IF getNumberOfElements(height_histograms[index]) >= min_points_in_cell_
        THEN { [ histogram |-> "height", index |-> index,
                 elements |-> getNumberOfElements(height_histograms[index]) ],
               [ histogram |-> "intensity", index |-> index,
                 elements |-> getNumberOfElements(intensity_histograms[index]) ] }
        ELSE {}

\* ------------------------------------------------------------------------
\* Specification of the builder.

Init ==
  /\ resolution_column_ = DefaultResolutionColumn
  /\ resolution_disparity_ = DefaultResolutionDisparity
  /\ min_points_in_cell_ = DefaultMinPointsInCell
  /\ disparity_map_width_ \in 1 .. MaxWidth
  /\ disparity_map_height_ \in 1 .. MaxHeight
  /\ disparity_map_width_ * disparity_map_height_ <= MaxPixels
  /\ \E t \in DisparityThresholds :
       /\ disparity_threshold_min_ = t[1]
       /\ disparity_threshold_max_ = t[2]
  /\ image_ \in BOOLEAN
  /\ pc = "idle"
  /\ out_cloud = NullCloud
  /\ error = FALSE
  /\ kColumnStep = 0
  /\ kDisparityStep = ToFloat(0)
  /\ height_histograms = NoHistograms
  /\ intensity_histograms = NoHistograms
  /\ column = 0
  /\ row = 0
  /\ pixel = NoPixel
  /\ index_column = 0
  /\ index_disparity = 0
  /\ mean_calls = {}
  /\ all_background = TRUE
  /\ hist = FeatureHistogram(0)
  /\ op = NoOp
  /\ constructed_bins = 0
  /\ layout = "padded"
  /\ past_end = 0

\* DigitalElevationMapBuilder::setResolution
SetResolution ==
  /\ pc = "idle"
  /\ \E rc \in 1 .. MaxResolution, rd \in 1 .. MaxResolution :
       /\ resolution_column_' = rc
       /\ resolution_disparity_' = rd
  /\ UNCHANGED << min_points_in_cell_, disparity_map_width_, disparity_map_height_,
                  disparity_threshold_min_, disparity_threshold_max_, image_,
                  compute_vars, hist_vars, heap_vars >>

\* DigitalElevationMapBuilder::setMinPointsInCell
SetMinPointsInCell ==
  /\ pc = "idle"
  /\ \E m \in 0 .. MaxMinPoints : min_points_in_cell_' = m
  /\ UNCHANGED << resolution_column_, resolution_disparity_, disparity_map_width_,
                  disparity_map_height_, disparity_threshold_min_,
                  disparity_threshold_max_, image_, compute_vars, hist_vars, heap_vars >>

\* compute, from its entry to the check of image_ (and its return there).
ComputeBegin ==
  /\ pc = "idle"
  /\ resolution_column_ <= MaxResolution
  /\ resolution_disparity_ <= MaxResolution
  /\ out_cloud' = NewCloud(resolution_column_, resolution_disparity_)
  /\ kColumnStep' = ColumnStep(disparity_map_width_, resolution_column_)
  /\ kDisparityStep' = DisparityStep(disparity_threshold_min_, disparity_threshold_max_,
                                     resolution_disparity_)
  /\ LET kNumberOfHistograms == resolution_column_ * resolution_disparity_
     IN  /\ height_histograms' =
               [i \in 0 .. kNumberOfHistograms - 1 |-> height_histogram_example]
         /\ intensity_histograms' =
               [i \in 0 .. kNumberOfHistograms - 1 |-> intensity_histogram_example]
  /\ layout' \in Layouts
  /\ IF ~image_
       THEN /\ error' = TRUE
            /\ pc' = "done"
       ELSE /\ error' = FALSE
            /\ pc' = "accumulate"
  /\ column' = 0
  /\ row' = 0
  /\ UNCHANGED << builder_vars, pixel, index_column, index_disparity, mean_calls,
                  all_background, hist_vars, past_end >>

\* One iteration of the accumulation loops: the pixel (column, row).
AccumulatePixel ==
  /\ pc = "accumulate"
  /\ \E disparity \in Disparities, height \in Heights, point_RGB \in Pixels :
       LET locals == PixelLocals(column, row, disparity, kColumnStep, kDisparityStep)
       IN  /\ pixel' = locals
           /\ IF locals.accepted
                THEN /\ height_histograms' =
                          AddValueAt(height_histograms, locals.index, height)
                     /\ intensity_histograms' =
                          AddValueAt(intensity_histograms, locals.index,
                                     Intensity(point_RGB))
                     /\ past_end' = past_end
                          + PastEndWrites(height_histograms, locals.index, height)
                          + PastEndWrites(intensity_histograms, locals.index,
                                          Intensity(point_RGB))
                ELSE UNCHANGED << height_histograms, intensity_histograms, past_end >>
           /\ all_background' =
                (all_background /\ F32Leq(disparity, disparity_threshold_min_))
  /\ IF row + 1 < disparity_map_height_
       THEN /\ row' = row + 1
            /\ UNCHANGED << column, pc >>
       ELSE /\ row' = 0
            /\ column' = column + 1
            /\ pc' = IF column + 1 < disparity_map_width_ THEN "accumulate" ELSE "reduce"
  /\ UNCHANGED << builder_vars, out_cloud, error, kColumnStep, kDisparityStep,
                  index_column, index_disparity, mean_calls, hist_vars, layout >>

\* One iteration of the reduction loops: the cell (index_column, index_disparity).
ReduceCell ==
  /\ pc = "reduce"
  /\ LET index == index_column + index_disparity * resolution_column_
     IN  out_cloud' = [out_cloud EXCEPT
                         !.points[index] = ReducePoint(index_column, index_disparity)]
  /\ mean_calls' = ReduceMeanCalls(index_column, index_disparity)
  /\ pixel' = NoPixel
  /\ IF index_disparity + 1 < resolution_disparity_
       THEN /\ index_disparity' = index_disparity + 1
            /\ UNCHANGED << index_column, pc >>
       ELSE /\ index_disparity' = 0
            /\ index_column' = index_column + 1
            /\ pc' = IF index_column + 1 < resolution_column_ THEN "reduce" ELSE "done"
  /\ UNCHANGED << builder_vars, error, kColumnStep, kDisparityStep, height_histograms,
                  intensity_histograms, column, row, all_background, hist_vars,
                  heap_vars >>

Next ==
  \/ SetResolution
  \/ SetMinPointsInCell
  \/ ComputeBegin
  \/ AccumulatePixel
  \/ ReduceCell

Spec == Init /\ [][Next]_vars

\* ------------------------------------------------------------------------
\* Specification of a FeatureHistogram on its own: any sequence of its
\* operations, the builder staying as constructed.

\* Thresholds setThresholds is called with: the integers of -1 .. MaxValue and
\* the two neighbouring floats 2^24 and 2^24 + 2.
HistThresholds ==
  { ToFloat(i) : i \in -1 .. MaxValue } \cup { ToFloat(Pow2(24)), ToFloat(Pow2(24) + 2) }

\* Values addValue is called with: the halves from -1/2 to MaxValue + 1/2 and,
\* for each integer of 1 .. MaxValue, the greatest float below it.
HistValues ==
  { F32Div(ToFloat(i), ToFloat(2)) : i \in -1 .. 2 * MaxValue + 1 }
    \cup { F32Pred(ToFloat(i)) : i \in 1 .. MaxValue }

HistInit ==
  /\ resolution_column_ = DefaultResolutionColumn
  /\ resolution_disparity_ = DefaultResolutionDisparity
  /\ min_points_in_cell_ = DefaultMinPointsInCell
  /\ disparity_map_width_ = 1
  /\ disparity_map_height_ = 1
  /\ disparity_threshold_min_ = ToFloat(0)
  /\ disparity_threshold_max_ = ToFloat(MaxDisparity)
  /\ image_ = FALSE
  /\ pc = "idle"
  /\ out_cloud = NullCloud
  /\ error = FALSE
  /\ kColumnStep = 0
  /\ kDisparityStep = ToFloat(0)
  /\ height_histograms = NoHistograms
  /\ intensity_histograms = NoHistograms
  /\ column = 0
  /\ row = 0
  /\ pixel = NoPixel
  /\ index_column = 0
  /\ index_disparity = 0
  /\ mean_calls = {}
  /\ all_background = TRUE
  /\ \E number_of_bins \in 1 .. MaxBins :
       /\ hist = FeatureHistogram(number_of_bins)
       /\ constructed_bins = number_of_bins
  /\ op = NoOp
  /\ layout = "padded"
  /\ past_end = 0

\* A call of setThresholds (min, max).
HSetThresholds ==
  /\ \E min \in HistThresholds, max \in HistThresholds :
       /\ hist' = setThresholds(hist, min, max)
       /\ op' = [ name |-> "setThresholds", min |-> min, max |-> max, ret |-> ToFloat(0) ]
  /\ UNCHANGED << builder_vars, compute_vars, constructed_bins, heap_vars >>

\* A call of addValue (value).
HAddValue ==
  /\ hist.number_of_elements_ < MaxElements
  /\ \E value \in HistValues :
       /\ hist' = addValue(hist, value)
       /\ past_end' = past_end + (IF addValueOverruns(hist, value) THEN 1 ELSE 0)
  /\ op' = [ name |-> "addValue", min |-> ToFloat(0), max |-> ToFloat(0), ret |-> ToFloat(0) ]
  /\ UNCHANGED << builder_vars, compute_vars, constructed_bins, layout >>

\* A call of meanValue ().
HMeanValue ==
  /\ op' = [ name |-> "meanValue", min |-> ToFloat(0), max |-> ToFloat(0),
             ret |-> meanValue(hist) ]
  /\ UNCHANGED << builder_vars, compute_vars, hist, constructed_bins, heap_vars >>

\* A call of variance (mean), with the mean 0 or the value of meanValue ().
HVariance ==
  /\ \E mean \in { ToFloat(0), meanValue(hist) } :
       op' = [ name |-> "variance", min |-> ToFloat(0), max |-> ToFloat(0),
               ret |-> variance(hist, mean) ]
  /\ UNCHANGED << builder_vars, compute_vars, hist, constructed_bins, heap_vars >>

HistNext ==
  \/ HSetThresholds
  \/ HAddValue
  \/ HMeanValue
  \/ HVariance

HistSpec == HistInit /\ [][HistNext]_vars

\* ------------------------------------------------------------------------
\* Specification of the index computation of the accumulation pass on its
\* own, in exact arithmetic: for a builder of any resolution and a disparity
\* map of any width, the locals the loop body computes for any one pixel of
\* the map, every float being an exact rational.

MaxIndexWidth == 6
MaxIndexResolution == 4
MaxIndexDisparity == 4

\* Disparity windows: the integer pairs min < max.
IndexThresholds ==
  { t \in (0 .. MaxIndexDisparity) \X (0 .. MaxIndexDisparity) : t[1] < t[2] }

\* Disparities: the halves of 0 .. MaxIndexDisparity.
IndexDisparities == { Rat(i, 2) : i \in 0 .. 2 * MaxIndexDisparity }

\* kDisparityStep in exact arithmetic
ExactDisparityStep(threshold_min, threshold_max, resolution_disparity) ==
  RatDiv(RatSub(threshold_max, threshold_min), Rat(resolution_disparity, 1))

\* The locals of one iteration of the accumulation loops in exact arithmetic.
ExactPixelLocals(col, rw, disparity, column_step, disparity_step) ==
  IF RatLess(disparity_threshold_min_, disparity)
       /\ RatLess(disparity, disparity_threshold_max_)
    THEN LET ic == IndexColumn(col, column_step)
             id == RatFloor(RatDiv(RatSub(disparity, disparity_threshold_min_),
                                   disparity_step))
         IN  [ read |-> TRUE, column |-> col, row |-> rw, disparity |-> disparity,
               accepted |-> TRUE, index_column |-> ic, index_disparity |-> id,
               index |-> FlatIndex(ic, id, resolution_column_) ]
    ELSE [ read |-> TRUE, column |-> col, row |-> rw, disparity |-> disparity,
           accepted |-> FALSE, index_column |-> 0, index_disparity |-> 0, index |-> 0 ]

IndexInit ==
  /\ resolution_column_ = DefaultResolutionColumn
  /\ resolution_disparity_ = DefaultResolutionDisparity
  /\ min_points_in_cell_ = DefaultMinPointsInCell
  /\ disparity_map_width_ \in 1 .. MaxIndexWidth
  /\ disparity_map_height_ = 1
  /\ \E t \in IndexThresholds :
       /\ disparity_threshold_min_ = Rat(t[1], 1)
       /\ disparity_threshold_max_ = Rat(t[2], 1)
  /\ image_ = TRUE
  /\ pc = "idle"
  /\ out_cloud = NullCloud
  /\ error = FALSE
  /\ kColumnStep = 0
  /\ kDisparityStep = Rat(0, 1)
  /\ height_histograms = NoHistograms
  /\ intensity_histograms = NoHistograms
  /\ column = 0
  /\ row = 0
  /\ pixel = NoPixel
  /\ index_column = 0
  /\ index_disparity = 0
  /\ mean_calls = {}
  /\ all_background = TRUE
  /\ hist = FeatureHistogram(0)
  /\ op = NoOp
  /\ constructed_bins = 0
  /\ layout = "padded"
  /\ past_end = 0

\* DigitalElevationMapBuilder::setResolution
IndexSetResolution ==
  /\ pixel = NoPixel
  /\ \E rc \in 1 .. MaxIndexResolution, rd \in 1 .. MaxIndexResolution :
       /\ resolution_column_' = rc
       /\ resolution_disparity_' = rd
  /\ UNCHANGED << min_points_in_cell_, disparity_map_width_, disparity_map_height_,
                  disparity_threshold_min_, disparity_threshold_max_, image_,
                  compute_vars, hist_vars, heap_vars >>

\* The steps of compute and the locals of its accumulation loops for one pixel.
IndexPixel ==
  /\ pixel = NoPixel
  /\ resolution_column_ <= MaxIndexResolution
  /\ resolution_disparity_ <= MaxIndexResolution
  /\ kColumnStep' = ColumnStep(disparity_map_width_, resolution_column_)
  /\ kDisparityStep' = ExactDisparityStep(disparity_threshold_min_,
                                          disparity_threshold_max_,
                                          resolution_disparity_)
  /\ \E col \in 0 .. disparity_map_width_ - 1, disparity \in IndexDisparities :
       /\ column' = col
       /\ pixel' = ExactPixelLocals(col, 0, disparity, kColumnStep', kDisparityStep')
  /\ UNCHANGED << builder_vars, pc, out_cloud, error, height_histograms,
                  intensity_histograms, row, index_column, index_disparity,
                  mean_calls, all_background, hist_vars, heap_vars >>

IndexNext ==
  \/ IndexSetResolution
  \/ IndexPixel

IndexSpec == IndexInit /\ [][IndexNext]_vars

\* ------------------------------------------------------------------------
\* Helpers of the properties.

RECURSIVE SumBins(_, _)
SumBins(histogram, n) ==
  IF n = 0 THEN 0 ELSE histogram[n - 1] + SumBins(histogram, n - 1)

Cells == 0 .. resolution_column_ * resolution_disparity_ - 1

MinusOne == ToFloat(-1)

\* ------------------------------------------------------------------------
\* Properties.

\* C1: compute with no image attached reports an error and leaves the caller's
\* output grid as it was before the call (unset: not allocated, not resized).
C1_NoImageLeavesOutputUnset ==
  (pc = "done" /\ ~image_) => (error /\ out_cloud = NullCloud)

\* C2: after compute with an image attached, in every cell both variances are
\* -1.0 iff the height histogram of the cell holds fewer than min_points_in_cell
\* elements, and a cell with at least min_points_in_cell elements has neither
\* variance equal to -1.0.
C2_SentinelIffTooFewSamples ==
  (pc = "done" /\ image_) =>
    \A i \in Cells :
      LET p == out_cloud.points[i]
          n == getNumberOfElements(height_histograms[i])
      IN  /\ (p.height_variance = MinusOne /\ p.intensity_variance = MinusOne)
                <=> (n < min_points_in_cell_)
          /\ (n >= min_points_in_cell_) =>
                (p.height_variance # MinusOne /\ p.intensity_variance # MinusOne)

\* C3: for an all-background disparity map with an image attached, whatever the
\* resolution and min_points_in_cell, every cell of the grid has y = 0.0,
\* intensity = 255.0 and both variances -1.0.
C3_AllBackgroundGivesInvalidCells ==
  (pc = "done" /\ image_ /\ all_background) =>
    \A i \in Cells :
      LET p == out_cloud.points[i]
      IN  /\ p.y = ToFloat(0)
          /\ p.intensity = ToFloat(255)
          /\ p.height_variance = MinusOne
          /\ p.intensity_variance = MinusOne

\* C4: in the reduction pass meanValue is called on a histogram (height or
\* intensity) only when that histogram holds at least one element.
C4_MeanValueNeverOnEmpty ==
  \A c \in mean_calls : c.elements >= 1

\* C5: after any sequence of addValue and setThresholds calls the bin counters
\* sum to the element count, and the number of bins is the one of construction.
C5_BinsSumToElementCount ==
  /\ DOMAIN hist.histogram_ = 0 .. constructed_bins - 1
  /\ hist.number_of_bins_ = constructed_bins
  /\ SumBins(hist.histogram_, constructed_bins) = getNumberOfElements(hist)

\* C6: setThresholds (min, max) with min >= max changes nothing of the histogram
\* (thresholds, bin width, element count, bins), and threshold_min <
\* threshold_max holds after any sequence of calls.
C6_RejectedSetThresholdsChangesNothing ==
  /\ [] F32Less(getThresholdMin(hist), getThresholdMax(hist))
  /\ [][ (op'.name = "setThresholds" /\ ~ F32Less(op'.min, op'.max)) => hist' = hist ]_vars

C6_Witness ==
  /\ op.name = "setThresholds"
  /\ ~ F32Less(op.min, op.max)
  /\ getNumberOfElements(hist) >= 1
  /\ hist.threshold_min_ # ToFloat(0)

\* C7: meanValue returns threshold_min + k * bin_width for the lowest index k
\* among the bins of the largest count, a value in [threshold_min, threshold_max).
C7_MeanValueIsFirstLargestBin ==
  op.name = "meanValue" =>
    /\ \E k \in 0 .. hist.number_of_bins_ - 1 :
         /\ op.ret = F32Add(hist.threshold_min_, F32Mul(ToFloat(k), hist.step_))
         /\ \A j \in 0 .. hist.number_of_bins_ - 1 :
              /\ hist.histogram_[j] <= hist.histogram_[k]
              /\ (hist.histogram_[j] = hist.histogram_[k]) => k <= j
    /\ F32Leq(hist.threshold_min_, op.ret)
    /\ F32Less(op.ret, hist.threshold_max_)

\* C8: processing one pixel in the accumulation pass changes no histogram
\* other than those at flat_index = column / column_step +
\* floor((disparity - threshold_min) / disparity_step) * resolution_column, and
\* none at all when the disparity is not strictly inside the window.
C8_PixelChangesOnlyItsCell ==
  [][ pc = "accumulate" =>
        LET disparity      == pixel'.disparity
            inside         == /\ F32Less(disparity_threshold_min_, disparity)
                              /\ F32Less(disparity, disparity_threshold_max_)
            column_step    == CHOOSE s \in 1 .. disparity_map_width_ :
                                /\ s * resolution_column_ >= disparity_map_width_
                                /\ (s - 1) * resolution_column_ < disparity_map_width_
            disparity_step == F32Div(F32Sub(disparity_threshold_max_,
                                            disparity_threshold_min_),
                                     ToFloat(resolution_disparity_))
            scaled         == F32Div(F32Sub(disparity, disparity_threshold_min_),
                                     disparity_step)
            flat_index     == (column \div column_step)
                                + ToSizeT(scaled) * resolution_column_
        IN  \A i \in Cells :
              (~ inside \/ i # flat_index) =>
                 /\ height_histograms'[i] = height_histograms[i]
                 /\ intensity_histograms'[i] = intensity_histograms[i]
    ]_vars

\* C9: every intensity histogram compute allocates has range [0, 255], 256
\* bins and a bin width of exactly 1.
C9_IntensityBinsHaveUnitWidth ==
  \A i \in DOMAIN intensity_histograms :
    /\ getThresholdMin(intensity_histograms[i]) = ToFloat(0)
    /\ getThresholdMax(intensity_histograms[i]) = ToFloat(255)
    /\ getNumberOfBins(intensity_histograms[i]) = 256
    /\ intensity_histograms[i].step_ = ToFloat(1)

\* C10: in exact arithmetic, for every width >= 1, resolution >= 1 and window
\* min < max, a pixel whose disparity is strictly inside the window has
\* index_column < resolution_column and index_disparity < resolution_disparity,
\* and its flat index is in [0, resolution_column * resolution_disparity).
C10_IndicesWithinGrid ==
  (pixel.read /\ pixel.accepted) =>
    /\ pixel.index_column >= 0
    /\ pixel.index_column < resolution_column_
    /\ pixel.index_disparity >= 0
    /\ pixel.index_disparity < resolution_disparity_
    /\ pixel.index >= 0
    /\ pixel.index < resolution_column_ * resolution_disparity_

C10_Witness ==
  /\ pixel.read
  /\ pixel.accepted
  /\ disparity_map_width_ = 5
  /\ resolution_column_ = 3
  /\ resolution_disparity_ = 3
  /\ pixel.column = disparity_map_width_ - 1
  /\ pixel.index_column = resolution_column_ - 1
  /\ pixel.index_disparity = resolution_disparity_ - 1
  /\ pixel.disparity.den = 2

====
